---- MODULE Spec2Model ----
(***************************************************************************)
(* A model of napi: the HTTP API server (package main) and the system      *)
(* routes (package routes).                                                *)
(*                                                                         *)
(* Time is counted in minutes.  Strings are TLA+ strings; file contents    *)
(* are sequences of bytes.  The middleware and session libraries the       *)
(* program is linked with (gorilla/mux, gorilla/sessions CookieStore,      *)
(* ulule/limiter memory store, go-chi/cors) are modelled at the places the *)
(* program configures and calls them.  The session key is taken to be set  *)
(* and secret: a cookie verifies exactly when the store signed it.         *)
(***************************************************************************)
EXTENDS Integers, Sequences, FiniteSets, TLC

\* ------------------------------------------------------------------ bounds
MaxLogins  == 2      \* successful logins explored
MaxLines   == 2      \* lines of a unit listing given to parseUnits

\* Client addresses: the key of the rate limiters.
Clients == {"10.0.0.1", "10.0.0.2"}

Client1 == "10.0.0.1"

\* ----------------------------------------------------------- configuration
USERNAME == "admin"
PASSWORD == "hunter2"
VERSION  == "1.0.0"

generalRate == [Period |-> 1, Limit |-> 10]
loginRate   == [Period |-> 10, Limit |-> 25]
systemRate  == [Period |-> 1, Limit |-> 70]

VARIABLES
  general,      \* generalLimiterStore: client key -> cache item
  login,        \* loginLimiterStore
  system,       \* systemLimiterStore
  logins,       \* number of successful logins so far (cookie pairs signed)
  files,        \* the file system: path -> content, or NoFile
  registered,   \* whether RegisterSystemRoutes has been applied to the router
  resp,         \* per client: the last request it sent and the answer it got
  last,         \* the client the latest step served ("": it served none)
  listing,      \* parseUnits harness: the lines the service manager printed
  unitType,     \* parseUnits harness: the unitType argument
  units         \* parseUnits harness: the result, or NotParsed

vars == <<general, login, system, logins, files, registered, resp, last,
          listing, unitType, units>>

\* ---------------------------------------------------------------- strings
\* unicode.IsSpace on the characters the listings use
IsSpace(ch) == ch \in {" ", "\t", "\n", "\r", "\f"}

\* The k-th smallest member of a set of numbers
Kth(S, k) == CHOOSE p \in S : Cardinality({ q \in S : q < p }) = k - 1

\* strings.Split(s, sep) for a separator of one character: the pieces between
\* its occurrences, in order (one piece more than there are occurrences)
Split(s, sep) ==
  LET at == { i \in 1..Len(s) : SubSeq(s, i, i) = sep }
      from(k) == IF k = 1 THEN 1 ELSE Kth(at, k - 1) + 1
      to(k) == IF k = Cardinality(at) + 1 THEN Len(s) ELSE Kth(at, k) - 1
  IN [k \in 1..(Cardinality(at) + 1) |-> SubSeq(s, from(k), to(k))]

\* strings.Fields(s): the maximal runs of non-space characters, in order
Fields(s) ==
  LET space(i) == IsSpace(SubSeq(s, i, i))
      starts == { i \in 1..Len(s) : ~space(i) /\ (i = 1 \/ space(i - 1)) }
      ends == { i \in 1..Len(s) : ~space(i) /\ (i = Len(s) \/ space(i + 1)) }
  IN [k \in 1..Cardinality(starts) |-> SubSeq(s, Kth(starts, k), Kth(ends, k))]

\* strings.Contains(s, substr)
Contains(s, substr) ==
  \E i \in 1..(Len(s) - Len(substr) + 1) : SubSeq(s, i, i + Len(substr) - 1) = substr

\* strings.Join(elems, sep)
RECURSIVE Join(_, _)
Join(elems, sep) ==
  IF Len(elems) = 0 THEN ""
  ELSE IF Len(elems) = 1 THEN elems[1]
  ELSE elems[1] \o sep \o Join(Tail(elems), sep)

\* -------------------------------------------------------------- parseUnits
MinFields == 5

Unit(fields) ==
  [UNIT |-> fields[1], LOAD |-> fields[2], ACTIVE |-> fields[3], SUB |-> fields[4],
   DESCRIPTION |-> Join(SubSeq(fields, 5, Len(fields)), " ")]

\* The unitType filter of parseUnits: the line's first field against unitType.
IsUnitType(name, ut) == Contains(name, ut)

LineSkipped_four(fields, ut) ==
  \/ Len(fields) < MinFields - 1
  \/ ~IsUnitType(fields[1], ut)

LineSkipped(fields, ut) ==
  \/ Len(fields) < MinFields
  \/ ~IsUnitType(fields[1], ut)

RECURSIVE UnitsOf(_, _)
UnitsOf(lines, ut) ==
  IF lines = << >> THEN << >>
  ELSE LET fields == Fields(Head(lines))
       IN (IF LineSkipped(fields, ut) THEN << >> ELSE << Unit(fields) >>)
          \o UnitsOf(Tail(lines), ut)

parseUnits(data, ut) == UnitsOf(Split(data, "\n"), ut)

\* What the service manager printed, line by line: each line is its words, the
\* white space between them and before the first, and the unit types its first
\* word contains (so the expected result is read off the line, not parsed).
HeaderLine ==
  [words |-> <<"UNIT", "LOAD", "ACTIVE", "SUB", "DESCRIPTION">>, sep |-> " ", lead |-> "  ",
   has |-> {""}]

FooService ==
  [words |-> <<"foo.service", "loaded", "active", "running", "Foo", "daemon">>, sep |-> "  ",
   lead |-> "", has |-> {"", ".service"}]

FooSocket ==
  [words |-> <<"foo.socket", "loaded", "active", "listening", "Foo", "socket">>, sep |-> " ",
   lead |-> "", has |-> {"", ".socket"}]

SampleLines ==
  { HeaderLine, FooService, FooSocket,
    [words |-> <<"a.service", "loaded", "inactive", "dead", "A">>, sep |-> "\t", lead |-> " ",
     has |-> {"", ".service"}],
    [words |-> <<"b.service", "loaded", "active", "exited">>, sep |-> " ", lead |-> "",
     has |-> {"", ".service"}],
    [words |-> <<"*", "c.service", "not-found", "inactive", "dead", "c.service">>, sep |-> " ",
     lead |-> "", has |-> {""}],
    [words |-> <<"x.service.socket", "loaded", "active", "running", "X", "Y", "Z">>, sep |-> " \t",
     lead |-> "", has |-> {"", ".service", ".socket"}],
    [words |-> << >>, sep |-> " ", lead |-> " ", has |-> {}] }

UnitTypes == {".service", ".socket", ""}

RECURSIVE Listings(_)
Listings(n) ==
  IF n = 0 THEN { << >> }
  ELSE LET shorter == Listings(n - 1)
       IN shorter \cup { Append(l, x) : l \in { y \in shorter : Len(y) = n - 1 }, x \in SampleLines }

\* The text of a listing as the command prints it: every line ends in a newline.
RenderLine(line) == line.lead \o Join(line.words, line.sep)

RECURSIVE Render(_)
Render(ls) == IF ls = << >> THEN "" ELSE RenderLine(Head(ls)) \o "\n" \o Render(Tail(ls))

NotParsed == [done |-> FALSE, out |-> << >>]

\* ---------------------------------------------------------------- sessions
Nil == "<nil>"

NoValues == {}

\* session.Values[key]
ValueOf(values, key) ==
  IF \E p \in values : p[1] = key THEN (CHOOSE p \in values : p[1] = key)[2] ELSE Nil

\* session.Values[key] = value
SetValue(values, key, value) == { p \in values : p[1] # key } \cup { <<key, value>> }

\* A "session" cookie.  The CookieStore keeps no state of its own: the cookie
\* carries the session's values, signed with the session key.  n numbers the
\* login that signed it (two cookies signed at different times differ).
NoCookie == [kind |-> "none", n |-> 0, values |-> NoValues]

Forged == [kind |-> "forged", n |-> 0, values |-> { <<"user", USERNAME>> }]

Signed(n, values) == [kind |-> "signed", n |-> n, values |-> values]

\* store.Get(r, "session"): the values of a cookie the store signed, and a new
\* empty session for a missing cookie or one that does not verify.
StoreGet_trusting(cookie) == cookie.values

StoreGet(cookie) == IF cookie.kind = "signed" THEN cookie.values ELSE NoValues

\* ---------------------------------------------------------------- requests
BadJSON == [malformed |-> TRUE]

IsCreds(body) == DOMAIN body = {"username", "password"}

NoQuery ==
  [target |-> "", filename |-> "", filepath |-> "", filecontent |-> << >>,
   time |-> "", command |-> ""]

Request(method, path, cookie, body, query, preflight) ==
  [method |-> method, path |-> path, cookie |-> cookie, body |-> body, query |-> query,
   preflight |-> preflight]

Text(msg) == [error |-> msg]

NoContent == [empty |-> TRUE]

\* What serving a request does: the answer (status, the component that wrote it,
\* the body, the Set-Cookie headers in order), the processes started, the file
\* operation made, and the new values of what it may change (for the limiter
\* stores, the item under the client's key).
Answer(c, status, by, body) ==
  [status |-> status, by |-> by, body |-> body, set |-> << >>, spawn |-> << >>,
   fs |-> "none", logins |-> logins, files |-> files,
   general |-> general[c], login |-> login[c], system |-> system[c]]

\* ------------------------------------------------------------ rate limiter
Expired == [count |-> 0, ttl |-> 0 - 1]

\* The cache's Increment for one key: a missing or expired item starts a new
\* window of rate.Period; a live one counts up and keeps its expiration.  ttl is
\* the item's expiration minus the current time; the item is expired once the
\* time is past the expiration.  Counts above Limit + 1 answer as Limit + 1
\* does, and are kept as Limit + 1.
Increment(item, rate) ==
  IF item.ttl < 0 THEN [count |-> 1, ttl |-> rate.Period]
  ELSE [item EXCEPT !.count = IF @ > rate.Limit THEN @ ELSE @ + 1]

\* limiter.Context.Reached
Reached_offbyone(item, rate) == item.count >= rate.Limit

Reached(item, rate) == item.count > rate.Limit

LimitExceeded(c, by) == Answer(c, 429, by, Text("Limit exceeded"))

\* (a limiter that lets the handler run before it looks at the count)
generalLimiterMiddleware_after(c, next) ==
  LET item == Increment(general[c], generalRate)
  IN IF Reached(item, generalRate)
     THEN [next EXCEPT !.status = 429, !.by = "generalLimiter", !.body = Text("Limit exceeded"),
                       !.general = item]
     ELSE [next EXCEPT !.general = item]

generalLimiterMiddleware(c, next) ==
  LET item == Increment(general[c], generalRate)
  IN IF Reached(item, generalRate)
     THEN [LimitExceeded(c, "generalLimiter") EXCEPT !.general = item]
     ELSE [next EXCEPT !.general = item]

loginLimiterMiddleware(c, next) ==
  LET item == Increment(login[c], loginRate)
  IN IF Reached(item, loginRate)
     THEN [LimitExceeded(c, "loginLimiter") EXCEPT !.login = item]
     ELSE [next EXCEPT !.login = item]

systemLimiterMiddleware(c, next) ==
  LET item == Increment(system[c], systemRate)
  IN IF Reached(item, systemRate)
     THEN [LimitExceeded(c, "systemLimiter") EXCEPT !.system = item]
     ELSE [next EXCEPT !.system = item]

\* ------------------------------------------------------------ package main
credentialsMatch_either(creds) == creds.username = USERNAME \/ creds.password = PASSWORD

credentialsMatch(creds) == creds.username = USERNAME /\ creds.password = PASSWORD

loginHandler(c, req) ==
  IF ~IsCreds(req.body) THEN Answer(c, 400, "loginHandler", Text("Invalid request payload"))
  ELSE IF credentialsMatch(req.body)
  THEN LET cleared == NoValues
           stored  == SetValue(cleared, "user", USERNAME)
       IN [Answer(c, 200, "loginHandler", [message |-> "Login successful", sessionId |-> ""])
             EXCEPT !.set = << Signed(logins + 1, cleared), Signed(logins + 1, stored) >>,
                    !.logins = logins + 1]
  ELSE Answer(c, 401, "loginHandler", Text("Invalid username or password"))

versionHandler(c, req) == Answer(c, 200, "versionHandler", [version |-> VERSION])

HasIdentity(req) == ValueOf(StoreGet(req.cookie), "user") # Nil

isAuthenticated(c, req, next) ==
  IF HasIdentity(req) THEN next
  ELSE Answer(c, 401, "isAuthenticated", Text("Unauthorized"))

optionsHandler(c, req) == Answer(c, 204, "optionsHandler", NoContent)

\* ---------------------------------------------------------- package routes
\* encoding/json on string(fileContent), as the client decodes it: the bytes of
\* the string coerced to valid UTF-8, each byte that starts no valid encoding
\* replaced by U+FFFD (EF BF BD).
IsCont(b) == b \in 128..191

RuneLen(b) ==
  IF b[1] < 128 THEN 1
  ELSE IF b[1] \in 194..223 /\ Len(b) >= 2 /\ IsCont(b[2]) THEN 2
  ELSE IF /\ b[1] \in 224..239 /\ Len(b) >= 3 /\ IsCont(b[2]) /\ IsCont(b[3])
          /\ (b[1] = 224 => b[2] >= 160) /\ (b[1] = 237 => b[2] <= 159) THEN 3
  ELSE IF /\ b[1] \in 240..244 /\ Len(b) >= 4 /\ IsCont(b[2]) /\ IsCont(b[3]) /\ IsCont(b[4])
          /\ (b[1] = 240 => b[2] >= 144) /\ (b[1] = 244 => b[2] <= 143) THEN 4
  ELSE 0

RECURSIVE JSONString(_)
JSONString(b) ==
  IF b = << >> THEN << >>
  ELSE LET n == RuneLen(b)
       IN IF n = 0 THEN << 239, 191, 189 >> \o JSONString(Tail(b))
          ELSE SubSeq(b, 1, n) \o JSONString(SubSeq(b, n + 1, Len(b)))

\* The query parameters explored.
Targets == {"", "nginx.service"}

Filepaths == {"", "/d", "/d/e"}

Filenames == {"", "f", "e/f"}

Contents == { << >>, << 97 >>, << 195, 169 >>, << 255 >> }

Times == {"", "now"}

Commands == {"", "reboot"}

FullPath(filepath, filename) == filepath \o "/" \o filename

Paths == { FullPath(fp, fn) : fp \in Filepaths \ {""}, fn \in Filenames \ {""} }

NoFile == << 0 - 1 >>

\* exec.Command(...): the command line started and whether it exited with success
\* (the commands are external: either can happen), with what it printed.
executeCommand(command, ok, out) ==
  [argv |-> << "sh", "-c", command >>, err |-> ~ok, out |-> IF ok THEN out ELSE ""]

ListServices(c, req, ext) ==
  LET svc  == executeCommand("systemctl --user list-units --type=service --all", ext.ok, Render(ext.out))
      sock == executeCommand("systemctl --user list-units --type=socket --all", ext.ok2, Render(ext.out2))
  IN IF svc.err
     THEN [Answer(c, 500, "ListServices", Text("Error fetching services")) EXCEPT !.spawn = << svc.argv >>]
     ELSE IF sock.err
     THEN [Answer(c, 500, "ListServices", Text("Error fetching sockets"))
             EXCEPT !.spawn = << svc.argv, sock.argv >>]
     ELSE [Answer(c, 200, "ListServices",
                  [services |-> parseUnits(svc.out, ".service"),
                   sockets |-> parseUnits(sock.out, ".socket")])
             EXCEPT !.spawn = << svc.argv, sock.argv >>]

StartService(c, req, ext) ==
  LET service == req.query.target
      argv == << "systemctl", "--user", "start", service >>
  IN IF service = "" THEN Answer(c, 400, "StartService", Text("Service name is required"))
     ELSE IF ~ext.ok
     THEN [Answer(c, 500, "StartService", Text("Error starting service " \o service))
             EXCEPT !.spawn = << argv >>]
     ELSE [Answer(c, 200, "StartService", [message |-> "Service " \o service \o " started successfully"])
             EXCEPT !.spawn = << argv >>]

StopService(c, req, ext) ==
  LET service == req.query.target
      argv == << "systemctl", "--user", "stop", service >>
  IN IF service = "" THEN Answer(c, 400, "StopService", Text("Service name is required"))
     ELSE IF ~ext.ok
     THEN [Answer(c, 500, "StopService", Text("Error stopping service " \o service))
             EXCEPT !.spawn = << argv >>]
     ELSE [Answer(c, 200, "StopService", [message |-> "Service " \o service \o " stopped successfully"])
             EXCEPT !.spawn = << argv >>]

RestartService(c, req, ext) ==
  LET service == req.query.target
      argv == << "systemctl", "--user", "restart", service >>
  IN IF service = "" THEN Answer(c, 400, "RestartService", Text("Service name is required"))
     ELSE IF ~ext.ok
     THEN [Answer(c, 500, "RestartService", Text("Error restarting service " \o service))
             EXCEPT !.spawn = << argv >>]
     ELSE [Answer(c, 200, "RestartService", [message |-> "Service " \o service \o " restarted successfully"])
             EXCEPT !.spawn = << argv >>]

WriteFileMissing_all(q) == q.filename = "" /\ q.filepath = "" /\ q.filecontent = << >>

WriteFileMissing(q) == q.filename = "" \/ q.filepath = "" \/ q.filecontent = << >>

\* (a write that appends to the file it finds)
WriteFile_append(c, req, ext) ==
  LET fullPath == FullPath(req.query.filepath, req.query.filename)
      old == IF files[fullPath] = NoFile THEN << >> ELSE files[fullPath]
  IN IF WriteFileMissing(req.query)
     THEN Answer(c, 400, "WriteFile", Text("Filename, filepath, and filecontent are required"))
     ELSE [Answer(c, 200, "WriteFile",
                  [message |-> "File " \o req.query.filename \o " saved successfully at "
                               \o req.query.filepath])
             EXCEPT !.fs = "write", !.files = [files EXCEPT ![fullPath] = old \o req.query.filecontent]]

\* os.WriteFile opens the file truncating it, then writes: ext.io is "ok", "open"
\* (the open failed: the file is as it was) or "write" (the write failed after the
\* truncation: the file is left empty).
WriteFile(c, req, ext) ==
  LET filename == req.query.filename
      filepath == req.query.filepath
      filecontent == req.query.filecontent
      fullPath == FullPath(filepath, filename)
  IN IF WriteFileMissing(req.query)
     THEN Answer(c, 400, "WriteFile", Text("Filename, filepath, and filecontent are required"))
     ELSE IF ext.io # "ok"
     THEN [Answer(c, 500, "WriteFile", Text("Error saving file " \o filename \o " at " \o filepath))
             EXCEPT !.fs = "write",
                    !.files = IF ext.io = "write" THEN [files EXCEPT ![fullPath] = << >>] ELSE files]
     ELSE [Answer(c, 200, "WriteFile",
                  [message |-> "File " \o filename \o " saved successfully at " \o filepath])
             EXCEPT !.fs = "write", !.files = [files EXCEPT ![fullPath] = filecontent]]

\* os.ReadFile fails on a file that does not exist, and may fail on one that does
\* (ext.io # "ok": unreadable).
ReadFile(c, req, ext) ==
  LET filename == req.query.filename
      filepath == req.query.filepath
      fullPath == FullPath(filepath, filename)
  IN IF filename = "" \/ filepath = ""
     THEN Answer(c, 400, "ReadFile", Text("Filename and filepath are required"))
     ELSE IF files[fullPath] = NoFile \/ ext.io # "ok"
     THEN [Answer(c, 500, "ReadFile", Text("Error reading file " \o filename \o " at " \o filepath))
             EXCEPT !.fs = "read"]
     ELSE [Answer(c, 200, "ReadFile", [content |-> JSONString(files[fullPath])])
             EXCEPT !.fs = "read"]

ScheduleTask(c, req, ext) ==
  LET time == req.query.time
      command == req.query.command
      atCommand == "echo \"" \o command \o "\" | at " \o time
      run == executeCommand(atCommand, ext.ok, "")
  IN IF time = "" \/ command = ""
     THEN Answer(c, 400, "ScheduleTask", Text("Both time and command are required"))
     ELSE IF run.err
     THEN [Answer(c, 500, "ScheduleTask", Text("Error scheduling task at " \o time))
             EXCEPT !.spawn = << run.argv >>]
     ELSE [Answer(c, 200, "ScheduleTask", [message |-> "Task scheduled at " \o time])
             EXCEPT !.spawn = << run.argv >>]

\* ------------------------------------------------------------- the router
\* main's routes, in the order it registers them.  The first route a request
\* matches serves it, so the two optionsHandler routes are never chosen.
mainRoutes ==
  << [path |-> "/login", methods |-> {"POST", "OPTIONS"}, handler |-> "loginHandler", sub |-> FALSE],
     [path |-> "/version", methods |-> {"GET", "OPTIONS"}, handler |-> "versionHandler", sub |-> FALSE],
     [path |-> "/login", methods |-> {"OPTIONS"}, handler |-> "optionsHandler", sub |-> FALSE],
     [path |-> "/version", methods |-> {"OPTIONS"}, handler |-> "optionsHandler", sub |-> FALSE] >>

\* The routes RegisterSystemRoutes adds under the /system subrouter.
systemRoutes ==
  << [path |-> "/system/services", methods |-> {"GET"}, handler |-> "ListServices", sub |-> TRUE],
     [path |-> "/system/services/start", methods |-> {"POST"}, handler |-> "StartService", sub |-> TRUE],
     [path |-> "/system/services/stop", methods |-> {"POST"}, handler |-> "StopService", sub |-> TRUE],
     [path |-> "/system/services/restart", methods |-> {"POST"}, handler |-> "RestartService", sub |-> TRUE],
     [path |-> "/system/write", methods |-> {"POST"}, handler |-> "WriteFile", sub |-> TRUE],
     [path |-> "/system/read", methods |-> {"GET"}, handler |-> "ReadFile", sub |-> TRUE],
     [path |-> "/system/at", methods |-> {"POST"}, handler |-> "ScheduleTask", sub |-> TRUE] >>

Routes == mainRoutes \o (IF registered THEN systemRoutes ELSE << >>)

\* mux's Match: the first route whose path and method match; 405 when only paths
\* match, 404 when none does.
Match(req) ==
  LET full == { i \in DOMAIN Routes : Routes[i].path = req.path /\ req.method \in Routes[i].methods }
      path == { i \in DOMAIN Routes : Routes[i].path = req.path }
  IN IF full # {} THEN [status |-> 200, route |-> Routes[CHOOSE i \in full : \A j \in full : i <= j]]
     ELSE [status |-> IF path # {} THEN 405 ELSE 404, route |-> Routes[1]]

\* What main registers for /login and /version.
loginRoute(c, req) == loginLimiterMiddleware(c, loginHandler(c, req))

versionRoute(c, req) == isAuthenticated(c, req, versionHandler(c, req))

\* What RegisterSystemRoutes puts around each system handler: the system limiter.
systemRoute(c, req, next) == systemLimiterMiddleware(c, next)

RouteHandler(c, route, req, ext) ==
  CASE route.handler = "loginHandler" -> loginRoute(c, req)
    [] route.handler = "versionHandler" -> versionRoute(c, req)
    [] route.handler = "optionsHandler" -> optionsHandler(c, req)
    [] route.handler = "ListServices" -> systemRoute(c, req, ListServices(c, req, ext))
    [] route.handler = "StartService" -> systemRoute(c, req, StartService(c, req, ext))
    [] route.handler = "StopService" -> systemRoute(c, req, StopService(c, req, ext))
    [] route.handler = "RestartService" -> systemRoute(c, req, RestartService(c, req, ext))
    [] route.handler = "WriteFile" -> systemRoute(c, req, WriteFile(c, req, ext))
    [] route.handler = "ReadFile" -> systemRoute(c, req, ReadFile(c, req, ext))
    [] route.handler = "ScheduleTask" -> systemRoute(c, req, ScheduleTask(c, req, ext))

\* cors.Handler: a preflight request (OPTIONS with Access-Control-Request-Method)
\* is answered here; any other goes on.
corsHandler(c, req, next) ==
  IF req.method = "OPTIONS" /\ req.preflight THEN Answer(c, 200, "cors", NoContent) ELSE next

\* The router main builds: the middlewares in the order of the r.Use calls (CORS,
\* security headers, general limiter) around the matched route; a request that
\* matches no route runs no middleware.
ServeHTTP(c, req, ext) ==
  LET m == Match(req)
  IN IF m.status # 200
     THEN Answer(c, m.status, "router", IF m.status = 404 THEN Text("404 page not found") ELSE NoContent)
     ELSE corsHandler(c, req, generalLimiterMiddleware(c, RouteHandler(c, m.route, req, ext)))

\* ---------------------------------------------------------- state machine
NoRequest == Request("", "", NoCookie, BadJSON, NoQuery, FALSE)

NoExchange ==
  [req |-> NoRequest, status |-> 0, by |-> "", body |-> NoContent, set |-> << >>,
   spawn |-> << >>, fs |-> "none"]

NoExt == [ok |-> TRUE, ok2 |-> TRUE, out |-> << >>, out2 |-> << >>, io |-> "ok"]

Init ==
  /\ general = [c \in Clients |-> Expired]
  /\ login = [c \in Clients |-> Expired]
  /\ system = [c \in Clients |-> Expired]
  /\ logins = 0
  /\ files = [p \in Paths |-> NoFile]
  /\ registered = FALSE
  /\ resp = [c \in Clients |-> NoExchange]
  /\ last = ""
  /\ listing = << >>
  /\ unitType = ""
  /\ units = NotParsed

\* Client c sends req and gets the answer out.
Exchange(c, req, out) ==
  /\ out.logins <= MaxLogins
  /\ general' = [general EXCEPT ![c] = out.general]
  /\ login' = [login EXCEPT ![c] = out.login]
  /\ system' = [system EXCEPT ![c] = out.system]
  /\ logins' = out.logins
  /\ files' = out.files
  /\ resp' = [resp EXCEPT ![c] = [req |-> req, status |-> out.status, by |-> out.by,
                                   body |-> out.body, set |-> out.set, spawn |-> out.spawn,
                                   fs |-> out.fs]]
  /\ last' = c
  /\ UNCHANGED <<registered, listing, unitType, units>>

\* d minutes pass: every cache item is d minutes closer to its expiration.
Age(item, d) == IF item.ttl < d THEN Expired ELSE [item EXCEPT !.ttl = @ - d]

Wait(d) ==
  /\ general' = [c \in Clients |-> Age(general[c], d)]
  /\ login' = [c \in Clients |-> Age(login[c], d)]
  /\ system' = [c \in Clients |-> Age(system[c], d)]
  /\ last' = ""
  /\ UNCHANGED <<logins, files, registered, resp, listing, unitType, units>>

\* One minute passes.
Tick == Wait(1)

\* Enough time passes for every window to end.
Idle == Wait(loginRate.Period + 1)

\* routes.RegisterSystemRoutes(r) applied to main's router.  main itself never
\* calls it: the router starts without the system routes.
RegisterSystemRoutes ==
  /\ ~registered
  /\ registered' = TRUE
  /\ last' = ""
  /\ UNCHANGED <<general, login, system, logins, files, resp, listing, unitType, units>>

\* The cookies a client can send: none, one it made up, or any the store signed.
Cookies ==
  {NoCookie, Forged} \cup { Signed(n, v) : n \in 1..logins, v \in {NoValues, { <<"user", USERNAME>> }} }

Bodies == {BadJSON} \cup [username : {USERNAME, "root"}, password : {PASSWORD, ""}]

PostLogin(c) ==
  \E body \in Bodies, cookie \in {NoCookie, Signed(logins, { <<"user", USERNAME>> })} :
    LET req == Request("POST", "/login", cookie, body, NoQuery, FALSE)
    IN Exchange(c, req, ServeHTTP(c, req, NoExt))

GetVersion(c) ==
  \E cookie \in Cookies :
    LET req == Request("GET", "/version", cookie, BadJSON, NoQuery, FALSE)
    IN Exchange(c, req, ServeHTTP(c, req, NoExt))

\* OPTIONS requests, preflight or not, and requests no route serves.
OptionsRequest(c) ==
  \E path \in {"/login", "/version"}, preflight \in BOOLEAN :
    LET req == Request("OPTIONS", path, NoCookie, BadJSON, NoQuery, preflight)
    IN Exchange(c, req, ServeHTTP(c, req, NoExt))

OtherRequest(c) ==
  \E r \in { <<"GET", "/login">>, <<"POST", "/version">>, <<"GET", "/system/services">> } :
    LET req == Request(r[1], r[2], NoCookie, BadJSON, NoQuery, FALSE)
    IN Exchange(c, req, ServeHTTP(c, req, NoExt))

Next == Idle \/ PostLogin(Client1) \/ GetVersion(Client1) \/ OptionsRequest(Client1) \/ OtherRequest(Client1)

Spec == Init /\ [][Next]_vars

\* The general limiter over time: two clients, minute by minute.
PlainRequest(c) ==
  LET req == Request("GET", "/version", NoCookie, BadJSON, NoQuery, FALSE)
  IN Exchange(c, req, ServeHTTP(c, req, NoExt))

NextLimit == Tick \/ \E c \in Clients : PlainRequest(c)

SpecLimit == Init /\ [][NextLimit]_vars

\* The limiters in front of the handlers: one client, logins with the right and
\* with a wrong password, /version without a session, a file write; time passes
\* in steps that end the one-minute windows.
GoodLogin(c) ==
  LET req == Request("POST", "/login", NoCookie, [username |-> USERNAME, password |-> PASSWORD],
                     NoQuery, FALSE)
  IN Exchange(c, req, ServeHTTP(c, req, NoExt))

BadLogin(c) ==
  LET req == Request("POST", "/login", NoCookie, [username |-> USERNAME, password |-> ""],
                     NoQuery, FALSE)
  IN Exchange(c, req, ServeHTTP(c, req, NoExt))

SampleQuery ==
  [target |-> "nginx.service", filename |-> "f", filepath |-> "/d", filecontent |-> << 97 >>,
   time |-> "now", command |-> "reboot"]

PostWrite(c) ==
  LET req == Request("POST", "/system/write", NoCookie, BadJSON, SampleQuery, FALSE)
  IN Exchange(c, req, ServeHTTP(c, req, NoExt))

WindowsEnd == Wait(generalRate.Period + 1)

NextGate ==
  \/ WindowsEnd
  \/ RegisterSystemRoutes
  \/ GoodLogin(Client1)
  \/ BadLogin(Client1)
  \/ PlainRequest(Client1)
  \/ PostWrite(Client1)

SpecGate == Init /\ [][NextGate]_vars

\* The system routes on the router: every route, with and without its
\* parameters, from a client that holds no session.
Exts == { [NoExt EXCEPT !.ok = ok, !.ok2 = ok, !.io = IF ok THEN "ok" ELSE "open"] : ok \in BOOLEAN }

SystemRequest(c) ==
  \E i \in DOMAIN systemRoutes, cookie \in {NoCookie, Forged}, query \in {NoQuery, SampleQuery},
     ext \in Exts :
    LET req == Request(CHOOSE m \in systemRoutes[i].methods : TRUE, systemRoutes[i].path, cookie,
                       BadJSON, query, FALSE)
    IN Exchange(c, req, ServeHTTP(c, req, ext))

VersionNoSession(c) ==
  \E cookie \in {NoCookie, Forged} :
    LET req == Request("GET", "/version", cookie, BadJSON, NoQuery, FALSE)
    IN Exchange(c, req, ServeHTTP(c, req, NoExt))

NextSystem == Idle \/ RegisterSystemRoutes \/ SystemRequest(Client1) \/ VersionNoSession(Client1)

SpecSystem == Init /\ [][NextSystem]_vars

\* The handlers of package routes called directly, with every combination of
\* present and absent parameters.
CallService(c) ==
  \E target \in Targets, ok \in BOOLEAN, verb \in {"start", "stop", "restart"} :
    LET req == Request("POST", "/system/services/" \o verb, NoCookie, BadJSON,
                       [NoQuery EXCEPT !.target = target], FALSE)
        ext == [NoExt EXCEPT !.ok = ok]
    IN Exchange(c, req, CASE verb = "start" -> StartService(c, req, ext)
                          [] verb = "stop" -> StopService(c, req, ext)
                          [] verb = "restart" -> RestartService(c, req, ext))

CallWriteFile(c) ==
  \E fn \in Filenames, fp \in Filepaths, fc \in { << >>, << 97 >> }, io \in {"ok", "open", "write"} :
    LET req == Request("POST", "/system/write", NoCookie, BadJSON,
                       [NoQuery EXCEPT !.filename = fn, !.filepath = fp, !.filecontent = fc], FALSE)
    IN Exchange(c, req, WriteFile(c, req, [NoExt EXCEPT !.io = io]))

CallReadFile(c) ==
  \E fn \in Filenames, fp \in Filepaths, io \in {"ok", "open"} :
    LET req == Request("GET", "/system/read", NoCookie, BadJSON,
                       [NoQuery EXCEPT !.filename = fn, !.filepath = fp], FALSE)
    IN Exchange(c, req, ReadFile(c, req, [NoExt EXCEPT !.io = io]))

CallScheduleTask(c) ==
  \E time \in Times, command \in Commands, ok \in BOOLEAN :
    LET req == Request("POST", "/system/at", NoCookie, BadJSON,
                       [NoQuery EXCEPT !.time = time, !.command = command], FALSE)
    IN Exchange(c, req, ScheduleTask(c, req, [NoExt EXCEPT !.ok = ok]))

Outputs == { << HeaderLine >>, << HeaderLine, FooService, FooSocket >> }

CallListServices(c) ==
  \E ok \in BOOLEAN, ok2 \in BOOLEAN, out \in Outputs, out2 \in Outputs :
    LET req == Request("GET", "/system/services", NoCookie, BadJSON, NoQuery, FALSE)
    IN Exchange(c, req, ListServices(c, req, [NoExt EXCEPT !.ok = ok, !.ok2 = ok2, !.out = out, !.out2 = out2]))

NextHandlers ==
  \/ CallService(Client1)
  \/ CallWriteFile(Client1)
  \/ CallReadFile(Client1)
  \/ CallScheduleTask(Client1)
  \/ CallListServices(Client1)

SpecHandlers == Init /\ [][NextHandlers]_vars

\* Two clients writing and reading the same files through the handlers.
WriteRequests == { <<"/d", "f">>, <<"/d", "e/f">>, <<"/d/e", "f">> }

ClientWrites(c) ==
  \E w \in WriteRequests, fc \in Contents \ { << >> }, io \in {"ok", "write"} :
    LET req == Request("POST", "/system/write", NoCookie, BadJSON,
                       [NoQuery EXCEPT !.filepath = w[1], !.filename = w[2], !.filecontent = fc], FALSE)
    IN Exchange(c, req, WriteFile(c, req, [NoExt EXCEPT !.io = io]))

ClientReads(c) ==
  \E w \in WriteRequests, io \in {"ok", "open"} :
    LET req == Request("GET", "/system/read", NoCookie, BadJSON,
                       [NoQuery EXCEPT !.filepath = w[1], !.filename = w[2]], FALSE)
    IN Exchange(c, req, ReadFile(c, req, [NoExt EXCEPT !.io = io]))

NextFiles == \E c \in Clients : ClientWrites(c) \/ ClientReads(c)

SpecFiles == Init /\ [][NextFiles]_vars

\* parseUnits on every listing of up to MaxLines sample lines.
InitParse ==
  /\ general = [c \in Clients |-> Expired]
  /\ login = [c \in Clients |-> Expired]
  /\ system = [c \in Clients |-> Expired]
  /\ logins = 0
  /\ files = [p \in Paths |-> NoFile]
  /\ registered = FALSE
  /\ resp = [c \in Clients |-> NoExchange]
  /\ last = ""
  /\ listing \in Listings(MaxLines)
  /\ unitType \in UnitTypes
  /\ units = NotParsed

ParseUnits ==
  /\ ~units.done
  /\ units' = [done |-> TRUE, out |-> parseUnits(Render(listing), unitType)]
  /\ UNCHANGED <<general, login, system, logins, files, registered, resp, last, listing, unitType>>

SpecParse == InitParse /\ [][ParseUnits]_vars

\* ================================================================== claims
\* The one credential pair the server accepts.
ConfiguredPair == [username |-> USERNAME, password |-> PASSWORD]

\* The values of a session that holds the configured identity.
IdentityValues == { <<"user", USERNAME>> }

\* The budget of a limiter item already used in its window.
Used(item) == IF item.ttl < 0 THEN 0 ELSE item.count

\* C1: after a second successful login the session of the first login no longer
\* passes the auth gate: whenever versionHandler answers, the cookie presented is
\* the one the latest login signed.
C1_OnlyLatestSessionPasses ==
  \A c \in Clients :
    (last = c /\ resp[c].by = "versionHandler") => resp[c].req.cookie.n = logins

\* C2: a login that reaches loginHandler with a username and password pair other
\* than the configured one is answered 401 and sets no cookie.
C2_WrongCredentialsRejected ==
  \A c \in Clients :
    LET x == resp[c]
    IN (x.by = "loginHandler" /\ IsCreds(x.req.body) /\ x.req.body # ConfiguredPair)
         => /\ x.status = 401
            /\ x.body = Text("Invalid username or password")
            /\ x.set = << >>

\* C2 happens: the right username with a wrong password, sent with a live
\* session cookie, was answered 401.
C2_Witness ==
  \E c \in Clients :
    /\ resp[c].by = "loginHandler"
    /\ resp[c].status = 401
    /\ resp[c].req.body = [username |-> USERNAME, password |-> ""]
    /\ resp[c].req.cookie = Signed(1, IdentityValues)

\* C3: versionHandler answers (200 with the configured version) only a request
\* whose cookie was signed by an earlier login and holds the configured username;
\* cookies are set only by a login with the configured pair and hold no other
\* identity; a request to /version without a signed cookie is never answered by
\* versionHandler, and is answered 401 by the auth gate whenever it gets to it.
C3_VersionOnlyWithIdentity ==
  \A c \in Clients :
    LET x == resp[c]
    IN /\ x.by = "versionHandler" =>
            /\ x.status = 200
            /\ x.body = [version |-> VERSION]
            /\ x.req.cookie.kind = "signed"
            /\ x.req.cookie.n \in 1..logins
            /\ x.req.cookie.values = IdentityValues
       /\ \A i \in DOMAIN x.set :
            /\ x.set[i].values \subseteq IdentityValues
            /\ x.set[i].n \in 1..logins
            /\ x.by = "loginHandler"
            /\ x.req.body = ConfiguredPair
       /\ (x.req.path = "/version" /\ x.req.cookie.kind # "signed") =>
            /\ x.by # "versionHandler"
            /\ x.by \notin {"router", "cors", "generalLimiter"} =>
                 (x.by = "isAuthenticated" /\ x.status = 401)

\* C3 happens: a signed cookie got the version, after two logins.
C3_Witness ==
  \E c \in Clients :
    /\ resp[c].by = "versionHandler"
    /\ resp[c].status = 200
    /\ logins = 2

\* C4: for each client the first 10 requests of a one-minute window pass the
\* general limiter, the 11th and later are answered 429, the first request after
\* the window has ended passes again, and a request by one client leaves every
\* other client's count as it was.
C4_GeneralWindow ==
  [][\A c \in Clients :
       last' = c =>
         /\ Used(general[c]) < 10 =>
              /\ resp'[c].status # 429
              /\ general'[c].count = Used(general[c]) + 1
         /\ Used(general[c]) >= 10 =>
              /\ resp'[c].status = 429
              /\ resp'[c].by = "generalLimiter"
         /\ \A d \in Clients \ {c} : general'[d] = general[d]]_vars

\* C4 happens: one client has used up its window and is answered 429 while
\* another's first request has passed.
C4_Witness ==
  \E c, d \in Clients :
    /\ c # d
    /\ general[c].count = 11
    /\ resp[c].by = "generalLimiter"
    /\ resp[c].status = 429
    /\ general[d].count = 1
    /\ resp[d].by = "isAuthenticated"

\* The exchange x was answered by a handler whose request lacks a required
\* parameter.
MissingParameter(x) ==
  LET q == x.req.query
  IN \/ x.by \in {"StartService", "StopService", "RestartService"} /\ q.target = ""
     \/ x.by = "WriteFile" /\ (q.filename = "" \/ q.filepath = "" \/ q.filecontent = << >>)
     \/ x.by = "ReadFile" /\ (q.filename = "" \/ q.filepath = "")
     \/ x.by = "ScheduleTask" /\ (q.time = "" \/ q.command = "")

\* C5: StartService, StopService, RestartService, WriteFile, ReadFile and
\* ScheduleTask answer a request that lacks a required parameter with 400, start
\* no process, make no file operation and leave every file as it was.
C5_MissingParameter ==
  [][\A c \in Clients :
       (last' = c /\ MissingParameter(resp'[c])) =>
         /\ resp'[c].status = 400
         /\ resp'[c].spawn = << >>
         /\ resp'[c].fs = "none"
         /\ files' = files]_vars

\* C5 happens: a write without content was answered 400 and the file already
\* there kept its content.
C5_Witness ==
  \E c \in Clients :
    /\ resp[c].by = "WriteFile"
    /\ resp[c].status = 400
    /\ resp[c].req.query = [NoQuery EXCEPT !.filename = "f", !.filepath = "/d"]
    /\ files["/d/f"] = << 97 >>

\* This step is c's successful read of the file that c's previous request wrote.
WroteThenReads(c) ==
  /\ last' = c
  /\ resp[c].by = "WriteFile"
  /\ resp[c].status = 200
  /\ resp'[c].by = "ReadFile"
  /\ resp'[c].status = 200
  /\ resp'[c].req.query.filepath = resp[c].req.query.filepath
  /\ resp'[c].req.query.filename = resp[c].req.query.filename

\* C6 as stated: a ReadFile that a client sends right after its WriteFile of C to
\* the same filepath and filename returns exactly C, whatever other clients wrote
\* in between.
C6_ReadAfterWriteAlways ==
  [][\A c \in Clients :
       WroteThenReads(c) => resp'[c].body.content = resp[c].req.query.filecontent]_vars

\* The sample contents as valid UTF-8: the byte 0xFF becomes U+FFFD (EF BF BD).
AsUTF8(content) == IF content = << 255 >> THEN << 239, 191, 189 >> ELSE content

\* C6 amended: when no other request came between the write and the read, the
\* read returns C with every byte that is not part of a valid UTF-8 encoding
\* replaced by U+FFFD: exactly C when C is valid UTF-8.
C6_ReadAfterWrite ==
  [][\A c \in Clients :
       (last = c /\ WroteThenReads(c)) =>
         resp'[c].body.content = AsUTF8(resp[c].req.query.filecontent)]_vars

\* C6 happens: a read returned the two bytes of a file written before it.
C6_Witness ==
  \E c \in Clients :
    /\ last = c
    /\ resp[c].by = "ReadFile"
    /\ resp[c].status = 200
    /\ resp[c].body.content = << 195, 169 >>
    /\ files[FullPath(resp[c].req.query.filepath, resp[c].req.query.filename)] = << 195, 169 >>

\* Words joined by single spaces.
RECURSIVE Spaced(_)
Spaced(ws) == IF ws = << >> THEN "" ELSE IF Len(ws) = 1 THEN ws[1] ELSE ws[1] \o " " \o Spaced(Tail(ws))

\* The units expected from a listing, read off the words of its lines.
RECURSIVE ExpectedUnits(_, _)
ExpectedUnits(ls, ut) ==
  IF ls = << >> THEN << >>
  ELSE LET w == Head(ls).words
       IN (IF Len(w) >= 5 /\ ut \in Head(ls).has
           THEN << [UNIT |-> w[1], LOAD |-> w[2], ACTIVE |-> w[3], SUB |-> w[4],
                    DESCRIPTION |-> Spaced(SubSeq(w, 5, Len(w)))] >>
           ELSE << >>)
          \o ExpectedUnits(Tail(ls), ut)

\* C7: parseUnits returns, in the order of the input, one unit for each line that
\* has at least five fields and whose first field contains the unit type: the
\* first four fields and the rest joined by single spaces.
C7_ParseUnits == units.done => units.out = ExpectedUnits(listing, unitType)

\* C7 happens: a header line and one service line gave exactly one unit.
C7_Witness ==
  /\ units.done
  /\ unitType = ".service"
  /\ listing = << HeaderLine, FooService >>
  /\ Len(units.out) = 1

\* C8: a request to /login is never answered by the general limiter.
C8_LoginNotGeneralLimited ==
  \A c \in Clients : resp[c].req.path = "/login" => resp[c].by # "generalLimiter"

\* Who answers a rate-limited request.
Limiters == {"generalLimiter", "loginLimiter", "systemLimiter"}

\* C9: a request a limiter rejects gets 429 from the limiter and nothing else
\* happens (no cookie set, no login counted, no process started, no file
\* operation, no file changed); a request to /version or to a system route of a
\* client whose general bucket is used up is rejected by the limiter, with or
\* without a session, and so is a login of a client whose login bucket is used
\* up; a request to /version answered 401 has used the general budget and a
\* login answered 401 the login budget.
C9_LimiterFirst ==
  [][\A c \in Clients :
       last' = c =>
         LET x == resp'[c]
             routed == x.by \notin {"router", "cors"}
         IN /\ x.status = 429 =>
                 /\ x.by \in Limiters
                 /\ x.set = << >> /\ x.spawn = << >> /\ x.fs = "none"
                 /\ logins' = logins /\ files' = files
            /\ (routed /\ x.req.path # "/login" /\ Used(general[c]) >= 10) =>
                 (x.status = 429 /\ x.by = "generalLimiter")
            /\ (x.by \notin {"router", "cors", "generalLimiter"} /\ x.req.path = "/login"
                  /\ Used(login[c]) >= 25) =>
                 (x.status = 429 /\ x.by = "loginLimiter")
            /\ (x.status = 401 /\ x.req.path = "/version") =>
                 general'[c].count = Used(general[c]) + 1
            /\ (x.status = 401 /\ x.req.path = "/login") =>
                 login'[c].count = Used(login[c]) + 1]_vars

\* C9 happens: with the system routes in place and a file written, the login
\* bucket is used up and a login with the right password is answered 429.
C9_Witness ==
  \E c \in Clients :
    /\ resp[c].by = "loginLimiter"
    /\ resp[c].status = 429
    /\ resp[c].req.body = ConfiguredPair
    /\ files["/d/f"] = << 97 >>

\* req names a route, path and method, that RegisterSystemRoutes defines.
IsSystemRequest(req) ==
  \E i \in DOMAIN systemRoutes : systemRoutes[i].path = req.path /\ req.method \in systemRoutes[i].methods

\* The handler RegisterSystemRoutes gives the path.
HandlerOf(path) == systemRoutes[CHOOSE i \in DOMAIN systemRoutes : systemRoutes[i].path = path].handler

\* C10: a request to a system route that is not rate limited reaches the route's
\* handler and is never answered 401.
C10_SystemRoutesReachable ==
  \A c \in Clients :
    (IsSystemRequest(resp[c].req) /\ resp[c].status # 429) =>
      (resp[c].by = HandlerOf(resp[c].req.path) /\ resp[c].status # 401)


====
